---- MODULE Spec2Model ----
(***************************************************************************)
(* MMAP::MMapManager (src/game/MotionGenerators/MoveMap.cpp): the cache of *)
(* navigation meshes keyed by (map, instance), the tiles merged into them, *)
(* the per-instance query handles, and the per-thread query handles of the *)
(* static (game-object) models.                                            *)
(*                                                                         *)
(* Every operation of the manager is modelled as an operator that maps a   *)
(* manager state to the SET of results the operation can have: one result  *)
(* per outcome of the files it opens and of the engine calls it makes.     *)
(* A result carries the new state, the value returned and the log of the   *)
(* file, allocator and engine calls made, in program order.                *)
(***************************************************************************)
EXTENDS Integers, Sequences, FiniteSets, TLC

\* ------------------------------------------------------------------ bounds
MaxMapId      == 1      \* map ids 0..MaxMapId
MaxInstanceId == 1      \* instance ids 0..MaxInstanceId
MaxTileX      == 1      \* tile x in 0..MaxTileX
MaxTileY      == 0      \* tile y in 0..MaxTileY
MaxNumber     == 1      \* tile variant numbers 0..MaxNumber
MaxRef        == 2      \* tile handles the engine issues: 1..MaxRef
MaxCalls      == 3      \* calls made on the manager in one run

MapIds      == 0..MaxMapId
InstanceIds == 0..MaxInstanceId
TileXs      == 0..MaxTileX
TileYs      == 0..MaxTileY
Numbers     == 0..MaxNumber

\* ----------------------------------------------------------- integer widths
\* TLC's integers are 32-bit signed, so a uint32 is kept as the pair of its
\* 16-bit halves <<high, low>> and a uint64 as the pair of its 32-bit halves
\* <<high, low>>; int32/uint32 arguments are naturals below 2^31.
TwoTo16 == 65536

\* bitwise or of two naturals
RECURSIVE BitOr(_, _)
BitOr(a, b) ==
    IF a = 0 THEN b
    ELSE IF b = 0 THEN a
    ELSE (IF a % 2 = 1 \/ b % 2 = 1 THEN 1 ELSE 0) + 2 * BitOr(a \div 2, b \div 2)

\* mutant: the x coordinate is shifted by 8 bits only, uint32(x << 8 | y)
packTileID_shift8(x, y) ==
    <<BitOr((x \div 256) % TwoTo16, (y \div TwoTo16) % TwoTo16),
      BitOr((x % 256) * 256, y % TwoTo16)>>

\* uint32(x << 16 | y): x << 16 has high half x mod 2^16 and low half 0; it
\* is or-ed with the two halves of y
packTileID(x, y) ==
    <<BitOr(x % TwoTo16, (y \div TwoTo16) % TwoTo16), BitOr(0, y % TwoTo16)>>

\* (uint64(mapId) << 32) | instanceId: uint64(mapId) << 32 has high half
\* mapId and low half 0; it is or-ed with instanceId, whose high half is 0
packInstanceId(mapId, instanceId) ==
    <<BitOr(mapId, 0), BitOr(0, instanceId)>>

\* bitwise and of two naturals
RECURSIVE BitAnd(_, _)
BitAnd(a, b) ==
    IF a = 0 \/ b = 0 THEN 0
    ELSE (IF a % 2 = 1 /\ b % 2 = 1 THEN 1 ELSE 0) + 2 * BitAnd(a \div 2, b \div 2)

\* uint32 x = (i->first >> 16): the high half of the packed tile key
unpackTileX(key) == key[1]

\* uint32 y = (i->first & 0x0000FFFF): the low half masked with 0xFFFF
unpackTileY(key) == BitAnd(key[2], TwoTo16 - 1)

\* ---------------------------------------------------------------- files
\* MmapTileHeader constants (MoveMapSharedDefines.h)
MMAP_MAGIC   == 1296908624
MMAP_VERSION == 8

\* what fopen/fread can find for a tile file: no file, or a header and
\* `avail` payload units behind it
NoFile == [exists |-> FALSE, mmapMagic |-> 0, mmapVersion |-> 0, size |-> 0, avail |-> 0]
TileFiles ==
    {NoFile} \cup
    [exists : {TRUE}, mmapMagic : {MMAP_MAGIC, MMAP_MAGIC + 1},
     mmapVersion : {MMAP_VERSION, MMAP_VERSION + 1}, size : {1}, avail : {0, 1}]

\* fread(data, size, 1, file): the number of whole items read
fread1(size, avail) == IF size > 0 /\ avail >= size THEN 1 ELSE 0

\* --------------------------------------------------------------- helpers
EmptyMap == [k \in {} |-> 0]
Range(f) == {f[k] : k \in DOMAIN f}
Without(f, k) == [j \in DOMAIN f \ {k} |-> f[j]]
\* the element a loop over an unordered container visits first
First(S) == CHOOSE m \in S : TRUE

\* one logged call: fopen, fread, dtAlloc, dtFree, dtAllocNavMesh, init,
\* dtFreeNavMesh, addTile, removeTile, dtAllocNavMeshQuery, queryInit,
\* dtFreeNavMeshQuery
Call(fn, key, arg, ok) == [fn |-> fn, key |-> key, arg |-> arg, ok |-> ok]

Result(st, ret, calls) == [st |-> st, ret |-> ret, calls |-> calls]

\* ---------------------------------------------------- the navigation engine
\* dtNavMesh::addTile on a mesh whose merged tiles are T (position -> handle):
\* the engine may reject the data; it rejects a position that is occupied;
\* otherwise it issues a handle no merged tile of the mesh has.
dtAddTile(T, pos) ==
    {[ok |-> FALSE, ref |-> 0, tiles |-> T]} \cup
    (IF pos \in DOMAIN T THEN {}
     ELSE {[ok |-> TRUE, ref |-> r, tiles |-> T @@ (pos :> r)] :
              r \in (1..MaxRef) \ Range(T)})

\* dtNavMesh::removeTile by handle: fails for a handle that names no merged
\* tile, and may be rejected by the engine for one that does.
dtRemoveTile(T, ref) ==
    {[ok |-> FALSE, tiles |-> T]} \cup
    {[ok |-> TRUE, tiles |-> Without(T, p)] : p \in {q \in DOMAIN T : T[q] = ref}}

\* ------------------------------------------------------------ static models
NThreads    == 2      \* threads calling GetModelNavMeshQuery: 1..NThreads
MaxGOCalls  == 2      \* calls of GetModelNavMeshQuery each thread makes
MaxModelId  == 1      \* displayIds 0..MaxModelId

Threads  == 1..NThreads
ModelIds == 0..MaxModelId
NoThread == 0
NullQuery == 0        \* nullptr

\* ------------------------------------------------------------------ state
VARIABLES
    m_loadedMMaps,   \* packed (map, instance) -> MMapData
    m_loadedTiles,   \* uint32 counter of loaded tiles
    navMeshes,       \* engine: packed (map, instance) of a live mesh -> merged tiles
    halted,          \* MANGOS_ASSERT fired
    destroyed,       \* ~MMapManager has run
    last,            \* the last call: operation, arguments, result, call log
    roundTrip,       \* history: progress of a load / unload / unload of one tile
    ncalls,          \* calls made so far
    liveMeshes,      \* history: packed (map, instance) -> meshes allocated for it and not freed
    liveGOMeshes,    \* history: displayId -> meshes allocated for it and not freed
    packed,          \* the arguments and the result of a call of a packing function
    m_loadedModels,  \* displayId -> MMapGOData
    m_modelsMutex,   \* the thread holding m_modelsMutex, or NoThread
    pc,              \* thread -> its place in GetModelNavMeshQuery
    displayIdOf,     \* thread -> the displayId of its call
    query,           \* thread -> the local `query` of its call
    nextQuery,       \* the handle dtAllocNavMeshQuery returns next
    goCreated,       \* history: thread -> handles created and initialised for it
    goReturns,       \* history: thread -> <<displayId, handle>> of each call that returned
    goInitFailed,    \* history: a query->init has failed
    crashed          \* a racing container access has brought the process down

cacheVars == <<m_loadedMMaps, m_loadedTiles, navMeshes, halted, destroyed, last, roundTrip,
               ncalls, liveMeshes, liveGOMeshes, packed>>
goVars == <<m_loadedModels, m_modelsMutex, pc, displayIdOf, query, nextQuery, goCreated,
            goReturns, goInitFailed, crashed>>
vars == <<cacheVars, goVars>>

\* the manager state the operations work on
State == [m_loadedMMaps |-> m_loadedMMaps, m_loadedTiles |-> m_loadedTiles,
          navMeshes |-> navMeshes, halted |-> halted, destroyed |-> destroyed]

\* new MMapData(mesh) with mmapLoadedTiles cleared
NewMMapData(key) ==
    [navMesh |-> key, mmapLoadedTiles |-> EmptyMap, navMeshQueries |-> EmptyMap]

\* ++ and -- on the uint32 counter (its values stay far below 2^31 here)
Inc32(c) == c + 1
Dec32(c) == c - 1

\* MANGOS_ASSERT(cond): the process stops when cond is false
MANGOS_ASSERT(st, cond) == IF cond THEN st ELSE [st EXCEPT !.halted = TRUE]

\* ------------------------------------------------------------- loadMapData
\* the entry registered by m_loadedMMaps.emplace(key, new MMapData(mesh))
RegisterMMap(st, key) ==
    [st EXCEPT !.m_loadedMMaps = @ @@ (key :> NewMMapData(key)),
               !.navMeshes = @ @@ (key :> EmptyMap)]

\* mutant: no look-up first, and the new entry is stored over the old one
loadMapData_noLookup(st, mapId, instanceId) ==
    LET key == packInstanceId(mapId, instanceId) IN
    {Result(st, "false", <<Call("fopen_mmap", key, 0, FALSE)>>)}
    \cup
    {Result(st, "false",
            <<Call("fopen_mmap", key, 0, TRUE), Call("dtAllocNavMesh", key, 0, TRUE),
              Call("init", key, 0, FALSE), Call("dtFreeNavMesh", key, 0, TRUE)>>)}
    \cup
    {Result([st EXCEPT !.m_loadedMMaps = (key :> NewMMapData(key)) @@ @,
                       !.navMeshes = (key :> EmptyMap) @@ @],
            "true",
            <<Call("fopen_mmap", key, 0, TRUE), Call("dtAllocNavMesh", key, 0, TRUE),
              Call("init", key, 0, TRUE)>>)}

loadMapData(st, mapId, instanceId) ==
    LET key == packInstanceId(mapId, instanceId) IN
    IF key \in DOMAIN st.m_loadedMMaps
    THEN {Result(st, "true", <<>>)}
    ELSE \* fopen of the per-map parameter file fails
         {Result(st, "false", <<Call("fopen_mmap", key, 0, FALSE)>>)}
         \cup
         \* mesh->init(&params) fails: the mesh is freed
         {Result(st, "false",
                 <<Call("fopen_mmap", key, 0, TRUE), Call("dtAllocNavMesh", key, 0, TRUE),
                   Call("init", key, 0, FALSE), Call("dtFreeNavMesh", key, 0, TRUE)>>)}
         \cup
         {Result(RegisterMMap(st, key), "true",
                 <<Call("fopen_mmap", key, 0, TRUE), Call("dtAllocNavMesh", key, 0, TRUE),
                   Call("init", key, 0, TRUE)>>)}

\* ---------------------------------------------------------- IsMMapTileLoaded
IsMMapTileLoaded(st, mapId, instanceId, x, y) ==
    LET key == packInstanceId(mapId, instanceId) IN
    IF key \notin DOMAIN st.m_loadedMMaps THEN FALSE
    ELSE packTileID(x, y) \in DOMAIN st.m_loadedMMaps[key].mmapLoadedTiles

\* ------------------------------------------------------------------ loadMap
\* mmapLoadedTiles.insert(packedGridPos, tileRef); ++m_loadedTiles
RecordTile(st, key, pos, ref) ==
    [st EXCEPT !.m_loadedMMaps[key].mmapLoadedTiles = @ @@ (pos :> ref),
               !.m_loadedTiles = Inc32(@)]

\* mutant: a duplicate load is taken as done already and reported as success
AlreadyLoaded_idempotent(st) == {Result(st, "true", <<>>)}

\* "Asked to load already loaded navmesh tile": return false
AlreadyLoaded(st) == {Result(st, "false", <<>>)}

\* fopen succeeded, fread(&fileHeader, sizeof(MmapTileHeader), 1, file) has
\* stored the header and fileHeader.mmapMagic is compared: the log keeps the
\* value compared
CheckedMagic(fopen, key, f) ==
    <<Call(fopen, key, 0, TRUE), Call("mmapMagic", key, f.mmapMagic, TRUE)>>

\* the magic number was accepted and fileHeader.mmapVersion is compared
OpenAndReadHeader(fopen, key, f) ==
    CheckedMagic(fopen, key, f) \o <<Call("mmapVersion", key, f.mmapVersion, TRUE)>>

\* mutants: a header check that lets every file through
BadMagic_never(f) == FALSE
BadVersion_never(f) == FALSE

\* fileHeader.mmapMagic != MMAP_MAGIC
BadMagic(f) == f.mmapMagic # MMAP_MAGIC

\* fileHeader.mmapVersion != MMAP_VERSION
BadVersion(f) == f.mmapVersion # MMAP_VERSION

\* mutant: the payload buffer is freed when the payload cannot be read
ShortRead_free(key, f) ==
    <<Call("dtAlloc", key, f.size, TRUE), Call("fread", key, f.size, FALSE),
      Call("dtFree", key, f.size, TRUE)>>

\* dtAlloc(fileHeader.size) and a fread of the payload that reads nothing:
\* the function returns with the buffer still allocated
ShortRead(key, f) ==
    <<Call("dtAlloc", key, f.size, TRUE), Call("fread", key, f.size, FALSE)>>

\* the part of loadMap after loadMapData succeeded, for one tile file f
loadTileFile(st, key, pos, f) ==
    IF pos \in DOMAIN st.m_loadedMMaps[key].mmapLoadedTiles
    THEN AlreadyLoaded(st)
    ELSE IF ~f.exists
    THEN {Result(st, "false", <<Call("fopen_mmtile", key, 0, FALSE)>>)}
    ELSE IF BadMagic(f)
    THEN {Result(st, "false", CheckedMagic("fopen_mmtile", key, f))}
    ELSE IF BadVersion(f)
    THEN {Result(st, "false", OpenAndReadHeader("fopen_mmtile", key, f))}
    ELSE IF fread1(f.size, f.avail) = 0
    THEN {Result(st, "false", OpenAndReadHeader("fopen_mmtile", key, f) \o ShortRead(key, f))}
    ELSE {IF a.ok
          THEN Result(RecordTile([st EXCEPT !.navMeshes[key] = a.tiles], key, pos, a.ref),
                      "true",
                      OpenAndReadHeader("fopen_mmtile", key, f) \o
                      <<Call("dtAlloc", key, f.size, TRUE),
                        Call("fread", key, f.size, TRUE), Call("addTile", key, a.ref, TRUE)>>)
          ELSE Result(st, "false",
                      OpenAndReadHeader("fopen_mmtile", key, f) \o
                      <<Call("dtAlloc", key, f.size, TRUE),
                        Call("fread", key, f.size, TRUE), Call("addTile", key, 0, FALSE),
                        Call("dtFree", key, f.size, TRUE)>>)
          : a \in dtAddTile(st.navMeshes[key], pos)}

\* the tile files a call of loadMap can meet; the file name is built from
\* mapId, x, y and number, and the file is opened only for a tile that is not
\* loaded yet
FilesFor(st, key, pos) ==
    IF pos \in DOMAIN st.m_loadedMMaps[key].mmapLoadedTiles THEN {NoFile} ELSE TileFiles

\* mutant: a load that fails takes back the entry loadMapData registered
loadMap_rollback(st, mapId, instanceId, x, y, number) ==
    LET key == packInstanceId(mapId, instanceId)
        pos == packTileID(x, y)
    IN UNION {
         IF r.ret = "false" THEN {r}
         ELSE UNION { {Result(IF t.ret = "true" THEN t.st ELSE st, t.ret, r.calls \o t.calls) :
                          t \in loadTileFile(r.st, key, pos, f)}
                      : f \in FilesFor(r.st, key, pos) }
         : r \in loadMapData(st, mapId, instanceId) }

loadMap(st, mapId, instanceId, x, y, number) ==
    LET key == packInstanceId(mapId, instanceId)
        pos == packTileID(x, y)
    IN UNION {
         IF r.ret = "false" THEN {r}
         ELSE UNION { {Result(t.st, t.ret, r.calls \o t.calls) :
                          t \in loadTileFile(r.st, key, pos, f)}
                      : f \in FilesFor(r.st, key, pos) }
         : r \in loadMapData(st, mapId, instanceId) }

\* ------------------------------------------- unloadMap(mapId, instanceId, x, y)
\* mutant: the key is erased and the counter is left as it was
EraseTile_noDecrement(st, key, pos) ==
    [st EXCEPT !.m_loadedMMaps[key].mmapLoadedTiles = Without(@, pos)]

\* mmapLoadedTiles.erase(packedGridPos); --m_loadedTiles
EraseTile(st, key, pos) ==
    [st EXCEPT !.m_loadedMMaps[key].mmapLoadedTiles = Without(@, pos),
               !.m_loadedTiles = Dec32(@)]

\* mutant: the status of removeTile is not looked at
unloadMapAfterRemove_ignoreStatus(st, key, pos, ref, r) ==
    Result(EraseTile([st EXCEPT !.navMeshes[key] = r.tiles], key, pos), "true",
           <<Call("removeTile", key, ref, r.ok)>>)

\* mutant: the assertion does not stop the process and the final return
\* false is reached
unloadMapAfterRemove_noAssert(st, key, pos, ref, r) ==
    IF ~r.ok
    THEN Result(st, "false", <<Call("removeTile", key, ref, FALSE)>>)
    ELSE Result(EraseTile([st EXCEPT !.navMeshes[key] = r.tiles], key, pos), "true",
                <<Call("removeTile", key, ref, TRUE)>>)

\* the branch taken on the status removeTile returned
unloadMapAfterRemove(st, key, pos, ref, r) ==
    IF ~r.ok
    THEN Result(MANGOS_ASSERT(st, FALSE), "halt", <<Call("removeTile", key, ref, FALSE)>>)
    ELSE Result(EraseTile([st EXCEPT !.navMeshes[key] = r.tiles], key, pos), "true",
                <<Call("removeTile", key, ref, TRUE)>>)

\* mutant: the tile set is not searched first, so mmapLoadedTiles[pos]
\* default-inserts a zero handle for a tile that is not loaded
unloadMap_noTileCheck(st, mapId, instanceId, x, y) ==
    LET key == packInstanceId(mapId, instanceId)
        pos == packTileID(x, y)
    IN IF key \notin DOMAIN st.m_loadedMMaps
       THEN {Result(st, "false", <<>>)}
       ELSE LET st1 == [st EXCEPT !.m_loadedMMaps[key].mmapLoadedTiles = @ @@ (pos :> 0)]
                tileRef == st1.m_loadedMMaps[key].mmapLoadedTiles[pos]
            IN {unloadMapAfterRemove(st1, key, pos, tileRef, r) :
                   r \in dtRemoveTile(st1.navMeshes[key], tileRef)}

unloadMap(st, mapId, instanceId, x, y) ==
    LET key == packInstanceId(mapId, instanceId)
        pos == packTileID(x, y)
    IN IF key \notin DOMAIN st.m_loadedMMaps
       THEN {Result(st, "false", <<>>)}
       ELSE IF pos \notin DOMAIN st.m_loadedMMaps[key].mmapLoadedTiles
       THEN {Result(st, "false", <<>>)}
       ELSE LET tileRef == st.m_loadedMMaps[key].mmapLoadedTiles[pos] IN
            {unloadMapAfterRemove(st, key, pos, tileRef, r) :
                r \in dtRemoveTile(st.navMeshes[key], tileRef)}

\* --------------------------------------------------------------- ~MMapData
\* delete mmap: the entry's query handles and its mesh are freed; the tiles
\* still merged in the mesh go with it
RECURSIVE FreeQueries(_, _, _)
FreeQueries(key, queries, todo) ==
    IF todo = {} THEN <<>>
    ELSE LET i == First(todo) IN
         <<Call("dtFreeNavMeshQuery", key, queries[i], TRUE)>>
             \o FreeQueries(key, queries, todo \ {i})

DeleteMMapData(st, key) ==
    Result([st EXCEPT !.m_loadedMMaps = Without(@, key), !.navMeshes = Without(@, key)],
           "void",
           FreeQueries(key, st.m_loadedMMaps[key].navMeshQueries,
                       DOMAIN st.m_loadedMMaps[key].navMeshQueries)
               \o <<Call("dtFreeNavMesh", key, 0, TRUE)>>)

\* ------------------------------------------------------------ unloadMap(mapId)
\* the test of the loop over m_loadedMMaps: is this entry one of the map's?
\* itr->first != uint64(mapId) << 32
IsEntryOfMap(key, mapId) == key = <<mapId, 0>>

\* the loop over the entry's tiles, in the container's order: removeTile on each stored
\* handle, the counter decremented for each removal the engine accepts
RECURSIVE unloadTiles(_, _, _, _)
unloadTiles(st, key, todo, calls) ==
    IF todo = {} THEN {Result(st, "void", calls)}
    ELSE LET pos == First(todo)
             ref == st.m_loadedMMaps[key].mmapLoadedTiles[pos]
         IN UNION {
              unloadTiles(
                  IF r.ok THEN [st EXCEPT !.navMeshes[key] = r.tiles,
                                          !.m_loadedTiles = Dec32(@)]
                  ELSE st,
                  key, todo \ {pos},
                  Append(calls, Call("removeTile", key, ref, r.ok)))
              : r \in dtRemoveTile(st.navMeshes[key], ref) }

\* the loop over the entries, in the container's order
RECURSIVE unloadEntries(_, _, _, _, _)
unloadEntries(st, mapId, todo, success, calls) ==
    IF todo = {} THEN {Result(st, IF success THEN "true" ELSE "false", calls)}
    ELSE LET key == First(todo) IN
         IF ~IsEntryOfMap(key, mapId)
         THEN unloadEntries(st, mapId, todo \ {key}, success, calls)
         ELSE UNION {
                LET d == DeleteMMapData(t.st, key) IN
                unloadEntries(d.st, mapId, todo \ {key}, TRUE, t.calls \o d.calls)
                : t \in unloadTiles(st, key,
                                    DOMAIN st.m_loadedMMaps[key].mmapLoadedTiles, calls) }

unloadMapAll(st, mapId) ==
    unloadEntries(st, mapId, DOMAIN st.m_loadedMMaps, FALSE, <<>>)

\* ----------------------------------------------------------- ~MMapManager
RECURSIVE deleteEntries(_, _, _)
deleteEntries(st, todo, calls) ==
    IF todo = {} THEN Result([st EXCEPT !.destroyed = TRUE], "void", calls)
    ELSE LET key == First(todo)
             d == DeleteMMapData(st, key)
         IN deleteEntries(d.st, todo \ {key}, calls \o d.calls)

DestroyManager(st) == {deleteEntries(st, DOMAIN st.m_loadedMMaps, <<>>)}

\* ---------------------------------------------------------- unloadMapInstance
\* mutant: the entry goes with its query handle
unloadMapInstance_dropsEntry(st, mapId, instanceId) ==
    LET key == packInstanceId(mapId, instanceId) IN
    IF key \notin DOMAIN st.m_loadedMMaps
    THEN {Result(st, "false", <<>>)}
    ELSE IF instanceId \notin DOMAIN st.m_loadedMMaps[key].navMeshQueries
    THEN {Result(st, "false", <<>>)}
    ELSE {Result([st EXCEPT !.m_loadedMMaps = Without(@, key)], "true",
                 <<Call("dtFreeNavMeshQuery", key,
                        st.m_loadedMMaps[key].navMeshQueries[instanceId], TRUE)>>)}

unloadMapInstance(st, mapId, instanceId) ==
    LET key == packInstanceId(mapId, instanceId) IN
    IF key \notin DOMAIN st.m_loadedMMaps
    THEN {Result(st, "false", <<>>)}
    ELSE IF instanceId \notin DOMAIN st.m_loadedMMaps[key].navMeshQueries
    THEN {Result(st, "false", <<>>)}
    ELSE {Result([st EXCEPT !.m_loadedMMaps[key].navMeshQueries = Without(@, instanceId)],
                 "true",
                 <<Call("dtFreeNavMeshQuery", key,
                        st.m_loadedMMaps[key].navMeshQueries[instanceId], TRUE)>>)}

\* ------------------------------------------------------------------ GetNavMesh
NullMesh == <<>>      \* nullptr

\* the mesh of the entry of (mapId, instanceId), or nullptr when there is none
GetNavMesh(st, mapId, instanceId) ==
    LET key == packInstanceId(mapId, instanceId) IN
    IF key \notin DOMAIN st.m_loadedMMaps THEN NullMesh
    ELSE st.m_loadedMMaps[key].navMesh

\* ------------------------------------------------------------ GetNavMeshQuery
\* the handle of a query allocated for the mesh of key
QueryOf(key) == 1

\* mutant: a query is allocated on every call and stored over the old one
GetNavMeshQuery_alwaysCreate(st, mapId, instanceId) ==
    LET key == packInstanceId(mapId, instanceId) IN
    IF key \notin DOMAIN st.m_loadedMMaps
    THEN {Result(st, "null", <<>>)}
    ELSE {Result([st EXCEPT !.m_loadedMMaps[key].navMeshQueries =
                                (instanceId :> QueryOf(key)) @@ @],
                 "query",
                 <<Call("dtAllocNavMeshQuery", key, QueryOf(key), TRUE),
                   Call("queryInit", key, QueryOf(key), TRUE)>>)}

GetNavMeshQuery(st, mapId, instanceId) ==
    LET key == packInstanceId(mapId, instanceId) IN
    IF key \notin DOMAIN st.m_loadedMMaps
    THEN {Result(st, "null", <<>>)}
    ELSE IF instanceId \in DOMAIN st.m_loadedMMaps[key].navMeshQueries
    THEN {Result(st, "query", <<>>)}
    ELSE {Result(st, "null",
                 <<Call("dtAllocNavMeshQuery", key, QueryOf(key), TRUE),
                   Call("queryInit", key, QueryOf(key), FALSE),
                   Call("dtFreeNavMeshQuery", key, QueryOf(key), TRUE)>>),
          Result([st EXCEPT !.m_loadedMMaps[key].navMeshQueries =
                                @ @@ (instanceId :> QueryOf(key))],
                 "query",
                 <<Call("dtAllocNavMeshQuery", key, QueryOf(key), TRUE),
                   Call("queryInit", key, QueryOf(key), TRUE)>>)}

\* ------------------------------------------------------------------ ChangeTile
\* mutant: the old tile is kept when the new variant cannot be loaded
ChangeTile_keepOld(st, mapId, instanceId, tileX, tileY, tileNumber) ==
    UNION {
      IF u.st.halted THEN {u}
      ELSE {Result(IF l.ret = "true" THEN l.st ELSE st, "void", u.calls \o l.calls) :
               l \in loadMap(u.st, mapId, instanceId, tileX, tileY, tileNumber)}
      : u \in unloadMap(st, mapId, instanceId, tileX, tileY) }

ChangeTile(st, mapId, instanceId, tileX, tileY, tileNumber) ==
    UNION {
      IF u.st.halted THEN {u}
      ELSE {Result(l.st, "void", u.calls \o l.calls) :
               l \in loadMap(u.st, mapId, instanceId, tileX, tileY, tileNumber)}
      : u \in unloadMap(st, mapId, instanceId, tileX, tileY) }

\* ------------------------------------------------------------------- actions
NoOp == [op |-> "none", mapId |-> 0, instanceId |-> 0, x |-> 0, y |-> 0, number |-> 0,
         displayIds |-> <<>>, ret |-> "void", calls |-> <<>>]

\* History of the calls, kept for the round-trip property: stage 1 after a
\* LoadTile that returned true (base: the counter before it), stage 2 after an
\* UnloadTile of the same tile that returned, made right after, stage 3 after
\* a second UnloadTile of the same tile that returned, made right after that.
NoTrip == [stage |-> 0, base |-> 0]

SameTile(op, mapId, instanceId, x, y) ==
    /\ op = "UnloadTile"
    /\ last.mapId = mapId /\ last.instanceId = instanceId /\ last.x = x /\ last.y = y

NextTrip(r, op, mapId, instanceId, x, y) ==
    IF op = "LoadTile" /\ r.ret = "true"
    THEN [stage |-> 1, base |-> m_loadedTiles]
    ELSE IF roundTrip.stage \in {1, 2} /\ SameTile(op, mapId, instanceId, x, y)
            /\ r.ret # "halt"
    THEN [roundTrip EXCEPT !.stage = @ + 1]
    ELSE NoTrip

\* dtAllocNavMesh / dtFreeNavMesh calls of a log that name key
CountCalls(calls, fn, key) ==
    Cardinality({j \in 1..Len(calls) : calls[j].fn = fn /\ calls[j].key = key})

\* the live meshes after the calls of a log
LiveAfter(live, calls) ==
    [key \in DOMAIN live |->
        live[key] + CountCalls(calls, "dtAllocNavMesh", key)
                  - CountCalls(calls, "dtFreeNavMesh", key)]

NotPacked == [fn |-> "none", a |-> 0, b |-> 0, key |-> <<0, 0>>]

InitCache ==
    /\ liveMeshes = [key \in {packInstanceId(mapId, instanceId) :
                                 mapId \in MapIds, instanceId \in InstanceIds} |-> 0]
    /\ m_loadedMMaps = EmptyMap
    /\ m_loadedTiles = 0
    /\ navMeshes = EmptyMap
    /\ halted = FALSE
    /\ destroyed = FALSE
    /\ last = NoOp
    /\ roundTrip = NoTrip
    /\ ncalls = 0

\* no static model loaded, no thread inside GetModelNavMeshQuery
InitModels(models) ==
    /\ m_loadedModels = models
    /\ liveGOMeshes = [displayId \in ModelIds |->
                          IF displayId \in DOMAIN models THEN 1 ELSE 0]
    /\ m_modelsMutex = NoThread
    /\ pc = [t \in Threads |-> "idle"]
    /\ displayIdOf = [t \in Threads |-> 0]
    /\ query = [t \in Threads |-> NullQuery]
    /\ nextQuery = 1
    /\ goCreated = [t \in Threads |-> 0]
    /\ goReturns = [t \in Threads |-> <<>>]
    /\ goInitFailed = FALSE
    /\ crashed = FALSE

Init == InitCache /\ InitModels(EmptyMap) /\ packed = NotPacked

Running == ~halted /\ ~destroyed /\ ncalls < MaxCalls

\* the step of a call that had result r
Apply(r, op, mapId, instanceId, x, y, number) ==
    /\ m_loadedMMaps' = r.st.m_loadedMMaps
    /\ m_loadedTiles' = r.st.m_loadedTiles
    /\ navMeshes' = r.st.navMeshes
    /\ halted' = r.st.halted
    /\ destroyed' = r.st.destroyed
    /\ last' = [op |-> op, mapId |-> mapId, instanceId |-> instanceId, x |-> x, y |-> y,
                number |-> number, displayIds |-> <<>>, ret |-> r.ret, calls |-> r.calls]
    /\ roundTrip' = NextTrip(r, op, mapId, instanceId, x, y)
    /\ ncalls' = ncalls + 1
    /\ liveMeshes' = LiveAfter(liveMeshes, r.calls)
    /\ UNCHANGED <<liveGOMeshes, packed, goVars>>

EnsureMeshLoaded(mapId, instanceId) ==
    /\ Running
    /\ \E r \in loadMapData(State, mapId, instanceId) :
          Apply(r, "EnsureMeshLoaded", mapId, instanceId, 0, 0, 0)

LoadTile(mapId, instanceId, x, y, number) ==
    /\ Running
    /\ \E r \in loadMap(State, mapId, instanceId, x, y, number) :
          Apply(r, "LoadTile", mapId, instanceId, x, y, number)

UnloadTile(mapId, instanceId, x, y) ==
    /\ Running
    /\ \E r \in unloadMap(State, mapId, instanceId, x, y) :
          Apply(r, "UnloadTile", mapId, instanceId, x, y, 0)

UnloadAllForMap(mapId) ==
    /\ Running
    /\ \E r \in unloadMapAll(State, mapId) :
          Apply(r, "UnloadAllForMap", mapId, 0, 0, 0, 0)

UnloadMapInstance(mapId, instanceId) ==
    /\ Running
    /\ \E r \in unloadMapInstance(State, mapId, instanceId) :
          Apply(r, "UnloadMapInstance", mapId, instanceId, 0, 0, 0)

ReplaceTile(mapId, instanceId, x, y, number) ==
    /\ Running
    /\ \E r \in ChangeTile(State, mapId, instanceId, x, y, number) :
          Apply(r, "ReplaceTile", mapId, instanceId, x, y, number)

GetQuery(mapId, instanceId) ==
    /\ Running
    /\ \E r \in GetNavMeshQuery(State, mapId, instanceId) :
          Apply(r, "GetQuery", mapId, instanceId, 0, 0, 0)

Teardown ==
    /\ ~halted /\ ~destroyed
    /\ \E r \in DestroyManager(State) :
          Apply(r, "Teardown", 0, 0, 0, 0, 0)

Next ==
    \/ \E mapId \in MapIds, instanceId \in InstanceIds : EnsureMeshLoaded(mapId, instanceId)
    \/ \E mapId \in MapIds, instanceId \in InstanceIds, x \in TileXs, y \in TileYs,
          number \in Numbers : LoadTile(mapId, instanceId, x, y, number)
    \/ \E mapId \in MapIds, instanceId \in InstanceIds, x \in TileXs, y \in TileYs :
          UnloadTile(mapId, instanceId, x, y)
    \/ \E mapId \in MapIds : UnloadAllForMap(mapId)
    \/ \E mapId \in MapIds, instanceId \in InstanceIds : UnloadMapInstance(mapId, instanceId)
    \/ \E mapId \in MapIds, instanceId \in InstanceIds, x \in TileXs, y \in TileYs,
          number \in Numbers : ReplaceTile(mapId, instanceId, x, y, number)
    \/ \E mapId \in MapIds, instanceId \in InstanceIds : GetQuery(mapId, instanceId)
    \/ Teardown

Spec == Init /\ [][Next]_vars

\* ------------------------------------------------------ GetModelNavMeshQuery
\* Each thread runs the function one statement at a time.  The look-ups at
\* lines 528 and 550 are made without m_modelsMutex; the insert at line 546 is
\* made with it and takes time (pc = "inserting").  A look-up made by another
\* thread while an insert into the same container is under way is a data race:
\* it can give the right answer, miss the key, or bring the process down.

\* new MMapGOData(mesh)
NewMMapGOData(displayId) == [navMesh |-> displayId, navMeshGOQueries |-> EmptyMap]

GOQueries(displayId) == m_loadedModels[displayId].navMeshGOQueries

\* another thread is inside navMeshGOQueries.insert of the same model
Racing(t) ==
    \E u \in Threads \ {t} : pc[u] = "inserting" /\ displayIdOf[u] = displayIdOf[t]

\* navMeshGOQueries.find(threadId) != end(): the answers the look-up can give
FindResults(t, synchronized) ==
    {t \in DOMAIN GOQueries(displayIdOf[t])}
        \cup (IF ~synchronized /\ Racing(t) THEN {FALSE} ELSE {})

GoRunning == ~crashed

GoReturn(t, displayId, handle) ==
    /\ goReturns' = [goReturns EXCEPT ![t] = Append(@, <<displayId, handle>>)]
    /\ pc' = [pc EXCEPT ![t] = "idle"]

\* line 523: the call begins; an unloaded model gives nullptr at once
GoCall(t, displayId) ==
    /\ GoRunning /\ pc[t] = "idle" /\ Len(goReturns[t]) < MaxGOCalls
    /\ displayIdOf' = [displayIdOf EXCEPT ![t] = displayId]
    /\ IF displayId \notin DOMAIN m_loadedModels
       THEN GoReturn(t, displayId, NullQuery)
       ELSE pc' = [pc EXCEPT ![t] = "fast"] /\ UNCHANGED goReturns
    /\ UNCHANGED <<m_loadedModels, m_modelsMutex, query, nextQuery, goCreated,
                   goInitFailed, crashed, cacheVars>>

\* line 528: the look-up before the lock
GoFastLookup(t) ==
    /\ GoRunning /\ pc[t] = "fast"
    /\ \E found \in FindResults(t, FALSE) :
          pc' = [pc EXCEPT ![t] = IF found THEN "index" ELSE "lock"]
    /\ UNCHANGED <<m_loadedModels, m_modelsMutex, displayIdOf, query, nextQuery, goCreated,
                   goReturns, goInitFailed, crashed, cacheVars>>

\* line 530: std::lock_guard guard(m_modelsMutex)
GoLock(t) ==
    /\ GoRunning /\ pc[t] = "lock" /\ m_modelsMutex = NoThread
    /\ m_modelsMutex' = t
    /\ pc' = [pc EXCEPT ![t] = "recheck"]
    /\ UNCHANGED <<m_loadedModels, displayIdOf, query, nextQuery, goCreated, goReturns,
                   goInitFailed, crashed, cacheVars>>

\* line 531: the look-up under the lock
GoRecheck(t) ==
    /\ GoRunning /\ pc[t] = "recheck"
    /\ \E found \in FindResults(t, TRUE) :
          pc' = [pc EXCEPT ![t] = IF found THEN "unlock" ELSE "create"]
    /\ UNCHANGED <<m_loadedModels, m_modelsMutex, displayIdOf, query, nextQuery, goCreated,
                   goReturns, goInitFailed, crashed, cacheVars>>

\* lines 536-543: dtAllocNavMeshQuery and query->init; on failure the query is
\* freed, the guard releases the mutex and nullptr is returned
GoCreate(t) ==
    /\ GoRunning /\ pc[t] = "create"
    /\ nextQuery' = nextQuery + 1
    /\ \/ /\ query' = [query EXCEPT ![t] = nextQuery]
          /\ goCreated' = [goCreated EXCEPT ![t] = @ + 1]
          /\ pc' = [pc EXCEPT ![t] = "insert"]
          /\ UNCHANGED <<m_modelsMutex, goReturns, goInitFailed>>
       \/ /\ goInitFailed' = TRUE
          /\ m_modelsMutex' = NoThread
          /\ GoReturn(t, displayIdOf[t], NullQuery)
          /\ UNCHANGED <<query, goCreated>>
    /\ UNCHANGED <<m_loadedModels, displayIdOf, crashed, cacheVars>>

\* line 546: navMeshGOQueries.insert begins to change the container
GoInsertBegin(t) ==
    /\ GoRunning /\ pc[t] = "insert"
    /\ pc' = [pc EXCEPT ![t] = "inserting"]
    /\ UNCHANGED <<m_loadedModels, m_modelsMutex, displayIdOf, query, nextQuery, goCreated,
                   goReturns, goInitFailed, crashed, cacheVars>>

\* line 546: the insert is done (insert keeps the value of a key that is there)
GoInsertEnd(t) ==
    /\ GoRunning /\ pc[t] = "inserting"
    /\ m_loadedModels' = [m_loadedModels EXCEPT ![displayIdOf[t]].navMeshGOQueries =
                              @ @@ (t :> query[t])]
    /\ pc' = [pc EXCEPT ![t] = "unlock"]
    /\ UNCHANGED <<m_modelsMutex, displayIdOf, query, nextQuery, goCreated, goReturns,
                   goInitFailed, crashed, cacheVars>>

\* line 548: the guard goes out of scope
GoUnlock(t) ==
    /\ GoRunning /\ pc[t] = "unlock"
    /\ m_modelsMutex' = NoThread
    /\ pc' = [pc EXCEPT ![t] = "index"]
    /\ UNCHANGED <<m_loadedModels, displayIdOf, query, nextQuery, goCreated, goReturns,
                   goInitFailed, crashed, cacheVars>>

\* line 550: return navMeshGOQueries[threadId], made without the mutex.
\* operator[] looks the key up and default-inserts nullptr for a key it does
\* not find; after a miss of a key that is there the container holds the old
\* value or the new nullptr under the key.
GoIndex(t) ==
    /\ GoRunning /\ pc[t] = "index"
    /\ \E found \in FindResults(t, FALSE) :
          IF found
          THEN /\ GoReturn(t, displayIdOf[t], GOQueries(displayIdOf[t])[t])
               /\ UNCHANGED m_loadedModels
          ELSE /\ GoReturn(t, displayIdOf[t], NullQuery)
               /\ \E kept \in {NullQuery} \cup
                              {GOQueries(displayIdOf[t])[u] :
                                  u \in {t} \cap DOMAIN GOQueries(displayIdOf[t])} :
                     m_loadedModels' =
                         [m_loadedModels EXCEPT ![displayIdOf[t]].navMeshGOQueries =
                              (t :> kept) @@ @]
    /\ UNCHANGED <<m_modelsMutex, displayIdOf, query, nextQuery, goCreated, goInitFailed,
                   crashed, cacheVars>>

\* a racing look-up (line 528 or 550) reads the container while it is being
\* changed and the process dies
GoCrash(t) ==
    /\ GoRunning /\ pc[t] \in {"fast", "index"} /\ Racing(t)
    /\ crashed' = TRUE
    /\ UNCHANGED <<m_loadedModels, m_modelsMutex, pc, displayIdOf, query, nextQuery,
                   goCreated, goReturns, goInitFailed, cacheVars>>

\* model 0 is loaded, the other models are not
InitGO == InitCache /\ InitModels(0 :> NewMMapGOData(0)) /\ packed = NotPacked

NextGO ==
    \/ \E t \in Threads, displayId \in ModelIds : GoCall(t, displayId)
    \/ \E t \in Threads : GoFastLookup(t)
    \/ \E t \in Threads : GoLock(t)
    \/ \E t \in Threads : GoRecheck(t)
    \/ \E t \in Threads : GoCreate(t)
    \/ \E t \in Threads : GoInsertBegin(t)
    \/ \E t \in Threads : GoInsertEnd(t)
    \/ \E t \in Threads : GoUnlock(t)
    \/ \E t \in Threads : GoIndex(t)
    \/ \E t \in Threads : GoCrash(t)

SpecGO == InitGO /\ [][NextGO]_vars

\* --------------------------------------------------------------- loadGameObject
MaxIds == 2      \* length of the list given to loadAllGameObjectModels

\* the part of loadGameObject after the look-up of the model failed, for one
\* model file f; the calls are logged under the displayId
loadGameObjectFile(models, displayId, f) ==
    IF ~f.exists
    THEN {Result(models, "false", <<Call("fopen_go", displayId, 0, FALSE)>>)}
    ELSE IF BadMagic(f)
    THEN {Result(models, "false", CheckedMagic("fopen_go", displayId, f))}
    ELSE IF BadVersion(f)
    THEN {Result(models, "false", OpenAndReadHeader("fopen_go", displayId, f))}
    ELSE IF fread1(f.size, f.avail) = 0
    THEN {Result(models, "false",
                 OpenAndReadHeader("fopen_go", displayId, f) \o ShortRead(displayId, f))}
    ELSE {\* mesh->init(data, size, DT_TILE_FREE_DATA) fails: the mesh is freed
          Result(models, "false",
                 OpenAndReadHeader("fopen_go", displayId, f) \o
                 <<Call("dtAlloc", displayId, f.size, TRUE),
                   Call("fread", displayId, f.size, TRUE),
                   Call("dtAllocNavMesh", displayId, 0, TRUE),
                   Call("init", displayId, f.size, FALSE),
                   Call("dtFreeNavMesh", displayId, 0, TRUE)>>),
          Result(models @@ (displayId :> NewMMapGOData(displayId)), "true",
                 OpenAndReadHeader("fopen_go", displayId, f) \o
                 <<Call("dtAlloc", displayId, f.size, TRUE),
                   Call("fread", displayId, f.size, TRUE),
                   Call("dtAllocNavMesh", displayId, 0, TRUE),
                   Call("init", displayId, f.size, TRUE)>>)}

\* mutant: no look-up first, and the new model is stored over the old one
loadGameObject_noLookup(models, displayId) ==
    UNION {{Result((displayId :> NewMMapGOData(displayId)) @@ r.st, r.ret, r.calls) :
               r \in {q \in loadGameObjectFile(Without(models, displayId), displayId, f) :
                          q.ret = "true"}}
           \cup {Result(models, r.ret, r.calls) :
                    r \in {q \in loadGameObjectFile(models, displayId, f) : q.ret = "false"}}
           : f \in TileFiles}

loadGameObject(models, displayId) ==
    IF displayId \in DOMAIN models
    THEN {Result(models, "true", <<>>)}
    ELSE UNION {loadGameObjectFile(models, displayId, f) : f \in TileFiles}

\* ------------------------------------------------------ loadAllGameObjectModels
\* mutant: the loop ends at the first model that fails to load
RECURSIVE loadAllGameObjectModels_stopAtFailure(_, _)
loadAllGameObjectModels_stopAtFailure(models, displayIds) ==
    IF displayIds = <<>> THEN {Result(models, "void", <<>>)}
    ELSE UNION {
           IF r.ret = "false" THEN {Result(r.st, "void", r.calls)}
           ELSE {Result(t.st, "void", r.calls \o t.calls) :
                    t \in loadAllGameObjectModels_stopAtFailure(r.st, Tail(displayIds))}
           : r \in loadGameObject(models, Head(displayIds)) }

\* for (uint32 displayId : displayIds) loadGameObject(displayId);
RECURSIVE loadAllGameObjectModels(_, _)
loadAllGameObjectModels(models, displayIds) ==
    IF displayIds = <<>> THEN {Result(models, "void", <<>>)}
    ELSE UNION {
           {Result(t.st, "void", r.calls \o t.calls) :
               t \in loadAllGameObjectModels(r.st, Tail(displayIds))}
           : r \in loadGameObject(models, Head(displayIds)) }

\* the lists of displayIds a caller passes
DisplayIdLists == UNION {[1..n -> ModelIds] : n \in 0..MaxIds}

\* the step of a call on the static models that had result r
ApplyGO(r, op, displayIds) ==
    /\ m_loadedModels' = r.st
    /\ last' = [NoOp EXCEPT !.op = op, !.displayIds = displayIds, !.ret = r.ret,
                            !.calls = r.calls]
    /\ roundTrip' = NoTrip
    /\ ncalls' = ncalls + 1
    /\ liveGOMeshes' = LiveAfter(liveGOMeshes, r.calls)
    /\ UNCHANGED <<m_loadedMMaps, m_loadedTiles, navMeshes, halted, destroyed, liveMeshes,
                   packed, m_modelsMutex, pc, displayIdOf, query, nextQuery, goCreated,
                   goReturns, goInitFailed, crashed>>

LoadStaticModel(displayId) ==
    /\ Running
    /\ \E r \in loadGameObject(m_loadedModels, displayId) :
          ApplyGO(r, "LoadStaticModel", <<displayId>>)

LoadStaticModels(displayIds) ==
    /\ Running
    /\ \E r \in loadAllGameObjectModels(m_loadedModels, displayIds) :
          ApplyGO(r, "LoadStaticModels", displayIds)

\* the cache operations together with the loading of one static model
NextModels ==
    \/ Next
    \/ \E displayId \in ModelIds : LoadStaticModel(displayId)

SpecModels == Init /\ [][NextModels]_vars

\* the loading of static models, one by one and by list
NextStatic ==
    \/ \E displayId \in ModelIds : LoadStaticModel(displayId)
    \/ \E displayIds \in DisplayIdLists : LoadStaticModels(displayIds)

\* the state after loadGameObject(0) and one call of GetModelNavMeshQuery(0)
\* by thread 1, which created handle 1
InitOneModelQueried ==
    /\ InitCache /\ packed = NotPacked
    /\ m_loadedModels = (0 :> [navMesh |-> 0, navMeshGOQueries |-> (1 :> 1)])
    /\ liveGOMeshes = [displayId \in ModelIds |-> IF displayId = 0 THEN 1 ELSE 0]
    /\ m_modelsMutex = NoThread
    /\ pc = [t \in Threads |-> "idle"]
    /\ displayIdOf = [t \in Threads |-> 0]
    /\ query = [t \in Threads |-> IF t = 1 THEN 1 ELSE NullQuery]
    /\ nextQuery = 2
    /\ goCreated = [t \in Threads |-> IF t = 1 THEN 1 ELSE 0]
    /\ goReturns = [t \in Threads |-> IF t = 1 THEN <<<<0, 1>>>> ELSE <<>>]
    /\ goInitFailed = FALSE
    /\ crashed = FALSE

\* no model loaded yet, or model 0 loaded and queried by one thread
InitStatic == Init \/ InitOneModelQueried

SpecStatic == InitStatic /\ [][NextStatic]_vars

\* ------------------------------------------------------- packing of the keys
\* Arguments given to the packing functions: the ends and the middle of the
\* 16-bit range, the first value above it, and the largest value the checker
\* can hold (2^31 - 1).
PackArgs == {0, 1, 2, 255, 256, 32767, 32768, 65534, 65535, 65536, 2147483647}

\* a caller is about to pack the pair (a, b)
InitPack ==
    /\ InitCache /\ InitModels(EmptyMap)
    /\ packed \in {[fn |-> "args", a |-> a, b |-> b, key |-> <<0, 0>>] :
                      a \in PackArgs, b \in PackArgs}

PackTile ==
    /\ packed.fn = "args"
    /\ packed' = [packed EXCEPT !.fn = "packTileID", !.key = packTileID(packed.a, packed.b)]
    /\ UNCHANGED <<m_loadedMMaps, m_loadedTiles, navMeshes, halted, destroyed, last, roundTrip,
                   ncalls, liveMeshes, liveGOMeshes, goVars>>

PackInstance ==
    /\ packed.fn = "args"
    /\ packed' = [packed EXCEPT !.fn = "packInstanceId",
                                !.key = packInstanceId(packed.a, packed.b)]
    /\ UNCHANGED <<m_loadedMMaps, m_loadedTiles, navMeshes, halted, destroyed, last, roundTrip,
                   ncalls, liveMeshes, liveGOMeshes, goVars>>

NextPack == PackTile \/ PackInstance

SpecPack == InitPack /\ [][NextPack]_vars

\* ------------------------------------------------------------------ claims
\* the state after a step
StateAfter == [m_loadedMMaps |-> m_loadedMMaps', m_loadedTiles |-> m_loadedTiles',
               navMeshes |-> navMeshes', halted |-> halted', destroyed |-> destroyed']

\* the tile keys held in the tile sets of all registered entries
RECURSIVE CountTiles(_, _)
CountTiles(maps, todo) ==
    IF todo = {} THEN 0
    ELSE LET key == First(todo) IN
         Cardinality(DOMAIN maps[key].mmapLoadedTiles) + CountTiles(maps, todo \ {key})

ResidentTiles == CountTiles(m_loadedMMaps, DOMAIN m_loadedMMaps)

\* the map portion (high 32 bits) of a packed (map, instance) key
MapOfKey(key) == key[1]

\* this step is a call of op (every call counts in ncalls)
Called(op) == ncalls' = ncalls + 1 /\ last'.op = op

\* the tile the call of this step names: resident before / after the step
WasLoaded == IsMMapTileLoaded(State, last'.mapId, last'.instanceId, last'.x, last'.y)
IsLoadedAfter == IsMMapTileLoaded(StateAfter, last'.mapId, last'.instanceId, last'.x, last'.y)

HasCall(calls, fn, ok) == \E j \in 1..Len(calls) : calls[j].fn = fn /\ calls[j].ok = ok

\* C1: while the manager lives, m_loadedTiles equals the number of tile keys
\* held in the tile sets of all registered entries, also after an
\* UnloadAllForMap in which the engine rejected a removal.
C1_CounterEqualsResident ==
    ~destroyed => m_loadedTiles = ResidentTiles

\* C2: UnloadAllForMap(m) removes the entry of every instance of map m,
\* leaves the entries of the other maps as they were, and returns true
\* exactly when map m had an entry before the call.
C2_UnloadAllForMap ==
    [][Called("UnloadAllForMap") =>
          /\ \A key \in DOMAIN m_loadedMMaps' : MapOfKey(key) # last'.mapId
          /\ \A key \in DOMAIN m_loadedMMaps :
                MapOfKey(key) # last'.mapId =>
                    /\ key \in DOMAIN m_loadedMMaps'
                    /\ m_loadedMMaps'[key] = m_loadedMMaps[key]
          /\ (last'.ret = "true") <=>
                 (\E key \in DOMAIN m_loadedMMaps : MapOfKey(key) = last'.mapId)]_vars

\* the calls of thread t on a loaded model that have returned
ReturnsOn(t, displayId) ==
    {i \in 1..Len(goReturns[t]) : goReturns[t][i][1] = displayId}

\* C3: threads calling GetStaticQuery for a loaded model, query initialisation
\* succeeding: no thread has two handles created for it, every call of a
\* thread returns a handle, the same one each time, which is the one stored
\* under its thread id, and once every thread has returned from a call there
\* is one created handle per thread.
C3_OneHandlePerThread ==
    ~goInitFailed =>
        \A displayId \in DOMAIN m_loadedModels :
            /\ \A t \in Threads :
                  /\ goCreated[t] <= 1
                  /\ \A i \in ReturnsOn(t, displayId) :
                        /\ goReturns[t][i][2] # NullQuery
                        /\ t \in DOMAIN GOQueries(displayId)
                        /\ goReturns[t][i][2] = GOQueries(displayId)[t]
                        /\ \A j \in ReturnsOn(t, displayId) :
                              goReturns[t][j][2] = goReturns[t][i][2]
            /\ (\A t \in Threads : ReturnsOn(t, displayId) # {}) =>
                  /\ \A t \in Threads : goCreated[t] = 1
                  /\ Cardinality(Range(GOQueries(displayId))) = NThreads

\* C4: after a LoadTile that returned true and an UnloadTile of the same tile
\* right after it, the tile is absent, the counter has its value from before
\* the load and the unload returned true; a second UnloadTile of that tile
\* returns false and changes neither.
C4_LoadUnloadRoundTrip ==
    /\ roundTrip.stage = 1 =>
          /\ IsMMapTileLoaded(State, last.mapId, last.instanceId, last.x, last.y)
          /\ m_loadedTiles = roundTrip.base + 1
    /\ roundTrip.stage \in {2, 3} =>
          /\ ~IsMMapTileLoaded(State, last.mapId, last.instanceId, last.x, last.y)
          /\ m_loadedTiles = roundTrip.base
    /\ roundTrip.stage = 2 => last.ret = "true"
    /\ roundTrip.stage = 3 => last.ret = "false"

C4_Witness == roundTrip.stage = 3

\* C5: LoadTile of a resident tile returns false, whatever the variant number,
\* and leaves the entries (tile keys and handles), the engine's merged tiles
\* and the counter unchanged.
C5_DuplicateLoadFails ==
    [][(Called("LoadTile") /\ WasLoaded) =>
          /\ last'.ret = "false"
          /\ UNCHANGED <<m_loadedMMaps, navMeshes, m_loadedTiles>>]_vars

C5_Witness ==
    /\ last.op = "LoadTile" /\ last.ret = "false" /\ last.calls = <<>>
    /\ last.number # 0
    /\ IsMMapTileLoaded(State, last.mapId, last.instanceId, last.x, last.y)

\* C6: for every registered entry, a packed tile coordinate is a key of the
\* entry's tile-handle map exactly when that tile is merged into the entry's
\* mesh in the engine, and the handle stored is the engine's.
C6_TileKeyIffMerged ==
    \A key \in DOMAIN m_loadedMMaps :
        /\ key \in DOMAIN navMeshes
        /\ \A x \in TileXs, y \in TileYs :
              packTileID(x, y) \in DOMAIN m_loadedMMaps[key].mmapLoadedTiles
                  <=> packTileID(x, y) \in DOMAIN navMeshes[key]
        /\ \A pos \in DOMAIN m_loadedMMaps[key].mmapLoadedTiles :
              pos \in DOMAIN navMeshes[key]
                  /\ navMeshes[key][pos] = m_loadedMMaps[key].mmapLoadedTiles[pos]

C6_Witness ==
    /\ last.op = "UnloadTile" /\ last.ret = "true"
    /\ \E key \in DOMAIN m_loadedMMaps :
          /\ key = packInstanceId(last.mapId, last.instanceId)
          /\ m_loadedMMaps[key].mmapLoadedTiles # EmptyMap
          /\ packTileID(last.x, last.y) \notin DOMAIN navMeshes[key]

\* C7: whenever an entry is destroyed, removeTile has been called for every
\* handle stored in it before its mesh is freed.
C7_TilesRemovedBeforeDestroy ==
    [][\A key \in DOMAIN m_loadedMMaps :
          key \notin DOMAIN m_loadedMMaps' =>
              \E k \in 1..Len(last'.calls) :
                  /\ last'.calls[k] = Call("dtFreeNavMesh", key, 0, TRUE)
                  /\ \A ref \in Range(m_loadedMMaps[key].mmapLoadedTiles) :
                        \E j \in 1..(k - 1) :
                            /\ last'.calls[j].fn = "removeTile"
                            /\ last'.calls[j].key = key
                            /\ last'.calls[j].arg = ref]_vars

\* C8: UnloadTile returns false and changes nothing, and calls nothing, when
\* there is no entry for (map, instance) or the tile is not in its tile set.
C8_UnloadAbsentNoEffect ==
    [][(Called("UnloadTile") /\ ~WasLoaded) =>
          /\ last'.ret = "false"
          /\ last'.calls = <<>>
          /\ UNCHANGED <<m_loadedMMaps, navMeshes, m_loadedTiles, halted, destroyed>>]_vars

C8_Witness ==
    /\ last.op = "UnloadTile" /\ last.ret = "false" /\ last.calls = <<>>
    /\ packInstanceId(last.mapId, last.instanceId) \in DOMAIN m_loadedMMaps
    /\ m_loadedMMaps[packInstanceId(last.mapId, last.instanceId)].mmapLoadedTiles # EmptyMap

\* C9: an UnloadTile of a resident tile whose removal the engine rejects
\* halts without a result, with the tile key still in the tile set, the tile
\* still merged and the counter not decremented; an UnloadTile that returns
\* has met no rejection, and nothing runs after the halt.
C9_RejectedRemovalHalts ==
    [][/\ (Called("UnloadTile") /\ WasLoaded /\ HasCall(last'.calls, "removeTile", FALSE)) =>
              /\ halted'
              /\ last'.ret = "halt"
              /\ IsLoadedAfter
              /\ UNCHANGED <<m_loadedMMaps, navMeshes, m_loadedTiles>>
       /\ (Called("UnloadTile") /\ WasLoaded /\ last'.ret # "halt") =>
              /\ ~halted'
              /\ last'.calls = <<Call("removeTile",
                                      packInstanceId(last'.mapId, last'.instanceId),
                                      m_loadedMMaps[packInstanceId(last'.mapId, last'.instanceId)]
                                          .mmapLoadedTiles[packTileID(last'.x, last'.y)],
                                      TRUE)>>
       /\ halted => UNCHANGED vars]_vars

C9_Witness ==
    /\ halted /\ last.op = "UnloadTile" /\ last.ret = "halt"
    /\ HasCall(last.calls, "removeTile", FALSE)
    /\ IsMMapTileLoaded(State, last.mapId, last.instanceId, last.x, last.y)

\* C10: EnsureMeshLoaded returns true and changes nothing when the key has an
\* entry; returns false and registers nothing when the parameter file is
\* missing or the engine rejects the parameters; and otherwise returns true
\* having registered one new entry with no tiles and no query handle.
C10_EnsureMeshLoaded ==
    [][Called("EnsureMeshLoaded") =>
          LET key == packInstanceId(last'.mapId, last'.instanceId) IN
          IF key \in DOMAIN m_loadedMMaps
          THEN /\ last'.ret = "true"
               /\ UNCHANGED <<m_loadedMMaps, navMeshes, m_loadedTiles>>
          ELSE IF HasCall(last'.calls, "fopen_mmap", FALSE)
                  \/ HasCall(last'.calls, "init", FALSE)
          THEN /\ last'.ret = "false"
               /\ UNCHANGED <<m_loadedMMaps, navMeshes, m_loadedTiles>>
          ELSE /\ last'.ret = "true"
               /\ DOMAIN m_loadedMMaps' = DOMAIN m_loadedMMaps \cup {key}
               /\ m_loadedMMaps'[key].mmapLoadedTiles = EmptyMap
               /\ m_loadedMMaps'[key].navMeshQueries = EmptyMap
               /\ \A k \in DOMAIN m_loadedMMaps : m_loadedMMaps'[k] = m_loadedMMaps[k]
               /\ m_loadedTiles' = m_loadedTiles]_vars

C10_Witness ==
    /\ last.op = "EnsureMeshLoaded" /\ last.ret = "true" /\ last.calls = <<>>
    /\ LET key == packInstanceId(last.mapId, last.instanceId) IN
          /\ key \in DOMAIN m_loadedMMaps
          /\ m_loadedMMaps[key].mmapLoadedTiles # EmptyMap
          /\ m_loadedMMaps[key].navMeshQueries # EmptyMap

\* this step is a call on the static models
CalledGO == ncalls' = ncalls + 1 /\ last'.op \in {"LoadStaticModel", "LoadStaticModels"}

\* this step is a call on the cache of (map, instance) meshes
CalledCache == ncalls' = ncalls + 1 /\ ~CalledGO

\* C11: while the manager lives, each (map, instance) key and each model id
\* has one live mesh when it is registered and none when it is not (every
\* mesh allocated is registered under its key or has been freed), and a call
\* allocates a mesh for a key only when the key has no entry, and then once.
C11_OneMeshPerKey ==
    /\ [](~destroyed =>
            /\ \A key \in DOMAIN liveMeshes :
                  liveMeshes[key] = IF key \in DOMAIN m_loadedMMaps THEN 1 ELSE 0
            /\ \A displayId \in DOMAIN liveGOMeshes :
                  liveGOMeshes[displayId] = IF displayId \in DOMAIN m_loadedModels THEN 1 ELSE 0)
    /\ [][/\ CalledCache =>
                \A key \in DOMAIN liveMeshes :
                    CountCalls(last'.calls, "dtAllocNavMesh", key) > 0 =>
                        /\ key \notin DOMAIN m_loadedMMaps
                        /\ CountCalls(last'.calls, "dtAllocNavMesh", key) = 1
          /\ CalledGO =>
                \A displayId \in DOMAIN liveGOMeshes :
                    CountCalls(last'.calls, "dtAllocNavMesh", displayId) > 0 =>
                        /\ displayId \notin DOMAIN m_loadedModels
                        /\ CountCalls(last'.calls, "dtAllocNavMesh", displayId) = 1]_vars

\* a model and a (map, instance) mesh are registered, a mesh that failed to
\* initialise has been freed, and a load of the registered model came back
\* without allocating
C11_Witness ==
    /\ last.op = "LoadStaticModel" /\ last.ret = "true" /\ last.calls = <<>>
    /\ m_loadedMMaps # EmptyMap
    /\ m_loadedModels # EmptyMap
    /\ ~destroyed

\* the header field fn was read with a value other than the reserved one
RejectedAt(calls, j) ==
    \/ calls[j].fn = "mmapMagic" /\ calls[j].arg # MMAP_MAGIC
    \/ calls[j].fn = "mmapVersion" /\ calls[j].arg # MMAP_VERSION

HeaderRejected(calls) == \E j \in 1..Len(calls) : RejectedAt(calls, j)

\* C12: in LoadTile and LoadStaticModel the version is compared only after the
\* magic number was accepted and the payload buffer is allocated (the header's
\* size used) only right after the version was accepted; when the magic or the
\* version differs from the reserved constant the call returns false and makes
\* no further call: no allocation, no read of the payload, no engine call.
C12_HeaderCheckedBeforeSize ==
    [][(Called("LoadTile") \/ Called("LoadStaticModel")) =>
          \A j \in 1..Len(last'.calls) :
              /\ RejectedAt(last'.calls, j) =>
                     /\ last'.ret = "false"
                     /\ j = Len(last'.calls)
                     /\ UNCHANGED <<m_loadedTiles, m_loadedModels>>
                     /\ \A key \in DOMAIN navMeshes' :
                           navMeshes'[key] =
                               IF key \in DOMAIN navMeshes THEN navMeshes[key] ELSE EmptyMap
              /\ last'.calls[j].fn = "mmapVersion" =>
                     /\ j > 1
                     /\ last'.calls[j - 1].fn = "mmapMagic"
                     /\ last'.calls[j - 1].arg = MMAP_MAGIC
              /\ last'.calls[j].fn = "dtAlloc" =>
                     /\ j > 2
                     /\ last'.calls[j - 1].fn = "mmapVersion"
                     /\ last'.calls[j - 1].arg = MMAP_VERSION
              /\ last'.calls[j].fn \in {"fread", "addTile"} =>
                     \E k \in 1..(j - 1) : last'.calls[k].fn = "dtAlloc"
              /\ (last'.op = "LoadStaticModel"
                     /\ last'.calls[j].fn \in {"dtAllocNavMesh", "init"}) =>
                     \E k \in 1..(j - 1) : last'.calls[k].fn = "dtAlloc"]_vars

\* a LoadStaticModel was rejected for its version, after a LoadTile that went
\* through both checks and merged a tile
C12_Witness ==
    /\ last.op = "LoadStaticModel" /\ last.ret = "false"
    /\ last.calls[Len(last.calls)].fn = "mmapVersion"
    /\ HeaderRejected(last.calls)
    /\ m_loadedTiles > 0

\* C13: a LoadTile that meets a tile file whose version is not MMAP_VERSION
\* returns false, adds no tile key to the entry's tile set, merges nothing
\* into the mesh and leaves the counter unchanged.
C13_BadVersionRejected ==
    [][(Called("LoadTile")
          /\ \E j \in 1..Len(last'.calls) :
                last'.calls[j].fn = "mmapVersion" /\ last'.calls[j].arg # MMAP_VERSION) =>
          LET key == packInstanceId(last'.mapId, last'.instanceId) IN
          /\ last'.ret = "false"
          /\ m_loadedTiles' = m_loadedTiles
          /\ ~IsLoadedAfter
          /\ key \in DOMAIN m_loadedMMaps'
          /\ m_loadedMMaps'[key].mmapLoadedTiles =
                 IF key \in DOMAIN m_loadedMMaps THEN m_loadedMMaps[key].mmapLoadedTiles
                 ELSE EmptyMap
          /\ navMeshes'[key] = IF key \in DOMAIN navMeshes THEN navMeshes[key] ELSE EmptyMap]_vars

\* the rejected load was for an entry that holds another tile
C13_Witness ==
    /\ last.op = "LoadTile" /\ last.ret = "false"
    /\ \E j \in 1..Len(last.calls) :
          last.calls[j].fn = "mmapVersion" /\ last.calls[j].arg # MMAP_VERSION
    /\ LET key == packInstanceId(last.mapId, last.instanceId) IN
          /\ key \in DOMAIN m_loadedMMaps
          /\ m_loadedMMaps[key].mmapLoadedTiles # EmptyMap
          /\ m_loadedTiles = 1

\* the entry of key, with its query handles left out of the comparison
SameButQueries(key) ==
    /\ key \in DOMAIN m_loadedMMaps'
    /\ m_loadedMMaps'[key].navMesh = m_loadedMMaps[key].navMesh
    /\ m_loadedMMaps'[key].mmapLoadedTiles = m_loadedMMaps[key].mmapLoadedTiles

\* every entry but that of key is as it was
OthersUnchanged(key) ==
    /\ DOMAIN m_loadedMMaps' \ {key} = DOMAIN m_loadedMMaps \ {key}
    /\ \A k \in DOMAIN m_loadedMMaps \ {key} : m_loadedMMaps'[k] = m_loadedMMaps[k]

\* C14: UnloadMapInstance returns false, calls nothing and changes nothing
\* when the key has no entry or the entry holds no query handle; otherwise it
\* returns true having freed the entry's query handle and removed it, the
\* entry still registered with its mesh alive and its tile set as before,
\* and the engine's tiles, the counter and all other entries unchanged.
C14_UnloadMapInstance ==
    [][Called("UnloadMapInstance") =>
          LET key == packInstanceId(last'.mapId, last'.instanceId) IN
          IF key \notin DOMAIN m_loadedMMaps
             \/ last'.instanceId \notin DOMAIN m_loadedMMaps[key].navMeshQueries
          THEN /\ last'.ret = "false"
               /\ last'.calls = <<>>
               /\ UNCHANGED <<m_loadedMMaps, navMeshes, m_loadedTiles, liveMeshes>>
          ELSE /\ last'.ret = "true"
               /\ last'.calls =
                      <<Call("dtFreeNavMeshQuery", key,
                             m_loadedMMaps[key].navMeshQueries[last'.instanceId], TRUE)>>
               /\ SameButQueries(key)
               /\ m_loadedMMaps'[key].navMeshQueries = EmptyMap
               /\ OthersUnchanged(key)
               /\ key \in DOMAIN navMeshes'
               /\ UNCHANGED <<navMeshes, m_loadedTiles, liveMeshes>>]_vars

\* the query handle of an entry that holds a tile was removed
C14_Witness ==
    /\ last.op = "UnloadMapInstance" /\ last.ret = "true"
    /\ LET key == packInstanceId(last.mapId, last.instanceId) IN
          /\ key \in DOMAIN m_loadedMMaps
          /\ m_loadedMMaps[key].mmapLoadedTiles # EmptyMap
          /\ m_loadedMMaps[key].navMeshQueries = EmptyMap
    /\ m_loadedTiles = 1

\* C15: GetQuery returns none and creates nothing when the key has no entry;
\* for an entry without a query handle it allocates one, and returns none
\* with the handle freed and nothing stored when the initialisation fails,
\* or stores it and returns it; for an entry with a handle it returns the
\* stored handle without allocating.  A stored handle stays as it is until
\* an UnloadMapInstance or UnloadAllForMap (or the end of the manager)
\* removes it, and no entry ever holds more than one handle.
C15_GetQuery ==
    [][/\ Called("GetQuery") =>
              LET key == packInstanceId(last'.mapId, last'.instanceId) IN
              IF key \notin DOMAIN m_loadedMMaps
              THEN /\ last'.ret = "null" /\ last'.calls = <<>>
                   /\ UNCHANGED <<m_loadedMMaps, navMeshes, m_loadedTiles>>
              ELSE IF m_loadedMMaps[key].navMeshQueries # EmptyMap
              THEN /\ last'.ret = "query" /\ last'.calls = <<>>
                   /\ UNCHANGED <<m_loadedMMaps, navMeshes, m_loadedTiles>>
              ELSE /\ Len(last'.calls) >= 2
                   /\ last'.calls[1].fn = "dtAllocNavMeshQuery"
                   /\ last'.calls[2].fn = "queryInit"
                   /\ IF ~last'.calls[2].ok
                      THEN /\ last'.ret = "null"
                           /\ last'.calls =
                                  <<last'.calls[1], last'.calls[2],
                                    Call("dtFreeNavMeshQuery", key, last'.calls[1].arg, TRUE)>>
                           /\ UNCHANGED m_loadedMMaps
                      ELSE /\ last'.ret = "query"
                           /\ Len(last'.calls) = 2
                           /\ SameButQueries(key)
                           /\ m_loadedMMaps'[key].navMeshQueries =
                                  (last'.instanceId :> last'.calls[1].arg)
                           /\ OthersUnchanged(key)
                   /\ UNCHANGED <<navMeshes, m_loadedTiles>>
       /\ \A key \in DOMAIN m_loadedMMaps :
              (m_loadedMMaps[key].navMeshQueries # EmptyMap
                  /\ last'.op \notin {"UnloadMapInstance", "UnloadAllForMap", "Teardown"}) =>
                  /\ key \in DOMAIN m_loadedMMaps'
                  /\ m_loadedMMaps'[key].navMeshQueries = m_loadedMMaps[key].navMeshQueries
       /\ \A key \in DOMAIN m_loadedMMaps' :
              Cardinality(DOMAIN m_loadedMMaps'[key].navMeshQueries) <= 1]_vars

\* a GetQuery found the handle an earlier GetQuery had stored, with another
\* call in between
C15_Witness ==
    /\ last.op = "GetQuery" /\ last.ret = "query" /\ last.calls = <<>>
    /\ ncalls = 3
    /\ m_loadedMMaps[packInstanceId(last.mapId, last.instanceId)].navMeshQueries # EmptyMap

\* the state and the calls of: UnloadTile(map, instance, x, y), its result
\* ignored, then LoadTile(map, instance, x, y, variant); nothing follows an
\* UnloadTile that halts
UnloadThenLoad(st, mapId, instanceId, x, y, number) ==
    UNION {
      IF u.st.halted THEN {[st |-> u.st, calls |-> u.calls]}
      ELSE {[st |-> l.st, calls |-> u.calls \o l.calls] :
               l \in loadMap(u.st, mapId, instanceId, x, y, number)}
      : u \in unloadMap(st, mapId, instanceId, x, y) }

\* C16: in every state in which a call can be made, the outcomes of
\* ReplaceTile (state reached and calls made) are exactly those of UnloadTile
\* with its result ignored followed by LoadTile of the variant; when the
\* tile was resident and the load fails the tile ends absent and the counter
\* is one lower; when the load succeeds the tile is resident with the handle
\* the engine issued and the counter is as before the call.
C16_ReplaceTileIsUnloadThenLoad ==
    /\ [](Running =>
            \A mapId \in MapIds, instanceId \in InstanceIds, x \in TileXs, y \in TileYs,
               number \in Numbers :
                UnloadThenLoad(State, mapId, instanceId, x, y, number) =
                    {[st |-> r.st, calls |-> r.calls] :
                        r \in ChangeTile(State, mapId, instanceId, x, y, number)})
    /\ [][(Called("ReplaceTile") /\ WasLoaded /\ ~halted') =>
              LET key == packInstanceId(last'.mapId, last'.instanceId)
                  pos == packTileID(last'.x, last'.y)
              IN IF HasCall(last'.calls, "addTile", TRUE)
                 THEN /\ IsLoadedAfter
                      /\ m_loadedTiles' = m_loadedTiles
                      /\ m_loadedMMaps'[key].mmapLoadedTiles[pos] = navMeshes'[key][pos]
                      /\ last'.calls[Len(last'.calls)] =
                             Call("addTile", key,
                                  m_loadedMMaps'[key].mmapLoadedTiles[pos], TRUE)
                 ELSE /\ ~IsLoadedAfter
                      /\ pos \notin DOMAIN navMeshes'[key]
                      /\ m_loadedTiles' = m_loadedTiles - 1]_vars

\* a ReplaceTile removed the resident tile and failed to load the new variant
C16_Witness ==
    /\ last.op = "ReplaceTile" /\ ~halted
    /\ HasCall(last.calls, "removeTile", TRUE)
    /\ ~HasCall(last.calls, "addTile", TRUE)
    /\ ~IsMMapTileLoaded(State, last.mapId, last.instanceId, last.x, last.y)
    /\ last.number # 0

\* C17: a packed (map, instance) key has map in its high 32 bits and instance
\* in its low 32 bits (map * 2^32 + instance); for x, y below 2^16 a packed
\* tile key has x in its high 16 bits and y in its low 16 bits
\* (x * 2^16 + y), key >> 16 and key & 0xFFFF give x and y back, and no
\* other pair of the valid range has the same key.
C17_PackingInvertible ==
    /\ packed.fn = "packInstanceId" =>
          /\ packed.key = <<packed.a, packed.b>>
          /\ \A a \in PackArgs, b \in PackArgs :
                packInstanceId(a, b) = packed.key => a = packed.a /\ b = packed.b
    /\ (packed.fn = "packTileID" /\ packed.a < TwoTo16 /\ packed.b < TwoTo16) =>
          /\ packed.key = <<packed.a, packed.b>>
          /\ unpackTileX(packed.key) = packed.a
          /\ unpackTileY(packed.key) = packed.b
          /\ \A a \in PackArgs, b \in PackArgs :
                (a < TwoTo16 /\ b < TwoTo16 /\ packTileID(a, b) = packed.key) =>
                    a = packed.a /\ b = packed.b

\* a tile key was packed from coordinates that fill both 16-bit halves
C17_Witness ==
    /\ packed.fn = "packTileID" /\ packed.a = 65535 /\ packed.b = 32768
    /\ packed.key = <<65535, 32768>>

\* the displayIds of a list
IdsOf(displayIds) == {displayIds[i] : i \in 1..Len(displayIds)}

\* the log shows an attempt for displayId that opened the file, found the
\* reserved magic and version, read the payload and had the mesh initialised
LoadedFromFile(calls, displayId) ==
    \E j \in 7..Len(calls) :
        /\ calls[j - 6] = Call("fopen_go", displayId, 0, TRUE)
        /\ calls[j - 5] = Call("mmapMagic", displayId, MMAP_MAGIC, TRUE)
        /\ calls[j - 4] = Call("mmapVersion", displayId, MMAP_VERSION, TRUE)
        /\ calls[j - 3].fn = "dtAlloc" /\ calls[j - 3].key = displayId
        /\ calls[j - 2].fn = "fread" /\ calls[j - 2].key = displayId /\ calls[j - 2].ok
        /\ calls[j - 1] = Call("dtAllocNavMesh", displayId, 0, TRUE)
        /\ calls[j].fn = "init" /\ calls[j].key = displayId /\ calls[j].ok

\* attempts made for displayId: files opened or found missing
Attempts(calls, displayId) ==
    Cardinality({j \in 1..Len(calls) : calls[j].fn = "fopen_go" /\ calls[j].key = displayId})

Occurrences(displayIds, displayId) ==
    Cardinality({i \in 1..Len(displayIds) : displayIds[i] = displayId})

\* C18: LoadStaticModels attempts every listed id that is not loaded, whatever
\* happened to the ids before it in the list (an id that stays unloaded was
\* tried once for each time it is listed); afterwards the loaded models are
\* those loaded before plus the listed ids for which a valid file was read
\* and accepted by the engine, and the models loaded before keep their mesh
\* and their per-thread query handles.
C18_LoadStaticModels ==
    [][Called("LoadStaticModels") =>
          /\ \A displayId \in IdsOf(last'.displayIds) \ DOMAIN m_loadedModels :
                /\ Attempts(last'.calls, displayId) >= 1
                /\ displayId \notin DOMAIN m_loadedModels' =>
                       Attempts(last'.calls, displayId) =
                           Occurrences(last'.displayIds, displayId)
          /\ \A displayId \in ModelIds \ IdsOf(last'.displayIds) :
                Attempts(last'.calls, displayId) = 0
          /\ DOMAIN m_loadedModels' =
                 DOMAIN m_loadedModels \cup
                 {displayId \in IdsOf(last'.displayIds) :
                     LoadedFromFile(last'.calls, displayId)}
          /\ \A displayId \in DOMAIN m_loadedModels :
                /\ m_loadedModels'[displayId] = m_loadedModels[displayId]
                /\ Attempts(last'.calls, displayId) = 0]_vars

\* a list call went on after a model that failed to load and loaded it at
\* the second try, next to a loaded model that kept its query handle
C18_Witness ==
    /\ last.op = "LoadStaticModels" /\ last.displayIds = <<1, 1>>
    /\ Attempts(last.calls, 1) = 2
    /\ 1 \in DOMAIN m_loadedModels
    /\ 0 \in DOMAIN m_loadedModels
    /\ m_loadedModels[0].navMeshGOQueries # EmptyMap

\* C19: in GetStaticQuery no thread is at one of the look-ups made without
\* the mutex (the one before the lock, line 528, and the final one, line 550)
\* while another thread is inside the insert into the same model's handle
\* map.
C19_NoLookupDuringInsert ==
    \A t \in Threads :
        (pc[t] \in {"fast", "index"} /\ m_modelsMutex # t) => ~Racing(t)

\* C20: when LoadTile returns, every payload buffer it allocated has been
\* handed to the engine by an addTile that succeeded, the tile being
\* resident, or has been freed.
C20_PayloadOwnedOrFreed ==
    [][Called("LoadTile") =>
          \A j \in 1..Len(last'.calls) :
              last'.calls[j].fn = "dtAlloc" =>
                  \/ /\ \E k \in (j + 1)..Len(last'.calls) :
                           last'.calls[k].fn = "addTile" /\ last'.calls[k].ok
                     /\ last'.ret = "true"
                     /\ IsLoadedAfter
                  \/ \E k \in (j + 1)..Len(last'.calls) :
                        /\ last'.calls[k].fn = "dtFree"
                        /\ last'.calls[k].key = last'.calls[j].key]_vars

\* the loadMapData call inside a LoadTile succeeded: it found the entry, or
\* opened the parameter file and had the mesh initialised
EnsuredMesh(calls) ==
    ~HasCall(calls, "fopen_mmap", FALSE) /\ ~HasCall(calls, "init", FALSE)

\* C21: a LoadTile that returns false after its internal EnsureMeshLoaded
\* succeeded leaves the key registered, so that GetMesh returns its mesh; an
\* entry that was there is as it was, an entry registered by this call has
\* no tile and no query handle; every other entry, every tile set, the
\* engine's merged tiles and the counter are unchanged.
C21_FailedLoadKeepsEntry ==
    [][(Called("LoadTile") /\ last'.ret = "false" /\ EnsuredMesh(last'.calls)) =>
          LET key == packInstanceId(last'.mapId, last'.instanceId) IN
          /\ key \in DOMAIN m_loadedMMaps'
          /\ GetNavMesh(StateAfter, last'.mapId, last'.instanceId) # NullMesh
          /\ GetNavMesh(StateAfter, last'.mapId, last'.instanceId) \in DOMAIN navMeshes'
          /\ m_loadedMMaps'[key] =
                 IF key \in DOMAIN m_loadedMMaps THEN m_loadedMMaps[key] ELSE NewMMapData(key)
          /\ navMeshes'[key] =
                 IF key \in DOMAIN navMeshes THEN navMeshes[key] ELSE EmptyMap
          /\ OthersUnchanged(key)
          /\ \A k \in DOMAIN navMeshes : k \in DOMAIN navMeshes' /\ navMeshes'[k] = navMeshes[k]
          /\ DOMAIN navMeshes' = DOMAIN navMeshes \cup {key}
          /\ m_loadedTiles' = m_loadedTiles
          /\ ~halted' /\ ~destroyed']_vars

\* the engine rejected the tile of a LoadTile that had just registered the
\* entry, while another entry holds a tile
C21_Witness ==
    /\ last.op = "LoadTile" /\ last.ret = "false"
    /\ HasCall(last.calls, "dtAllocNavMesh", TRUE)
    /\ HasCall(last.calls, "addTile", FALSE)
    /\ LET key == packInstanceId(last.mapId, last.instanceId) IN
          /\ key \in DOMAIN m_loadedMMaps
          /\ m_loadedMMaps[key].mmapLoadedTiles = EmptyMap
          /\ GetNavMesh(State, last.mapId, last.instanceId) = key
    /\ m_loadedTiles = 1

====
